---------------------------- MODULE Spec2Model ----------------------------
(***************************************************************************)
(* Model of the managed-services reporting tool:                           *)
(*   page/import_csv.py  - the upload form (validate, coerce, deduplicate, *)
(*                         insert in batches)                              *)
(*   page/dashboard.py   - the dashboard's date-ranged aggregate queries   *)
(*                                                                         *)
(* Text is modelled as a sequence of characters (a tuple of one-character  *)
(* strings), so that strip / lower / replace / to_numeric are computed on  *)
(* the characters and are not the identity.  In column names a whole word  *)
(* stands for its letters ("Unique" is one symbol); the whitespace between *)
(* and around the words is kept character by character.                    *)
(***************************************************************************)
EXTENDS Integers, Sequences, FiniteSets, TLC

VARIABLES
    \* ---- the storage collaborator (table managed_services) ----
    tableExists,    \* whether SHOW TABLES LIKE 'managed_services' finds the table
    storage,        \* committed rows, in insertion order: the `Unique ID` column
    leaked,         \* whether a run has ended with its connection still open
    \* ---- one browser session of the import page per process ----
    uploaded,       \* the file held by st.file_uploader: [hdr, rows] or NoFile
    pc,             \* the session: "idle", "rejected", "ready", "dedup", "batch"
    conn,           \* the session's connection handle: "none" or "open"
    df,             \* the data frame: sequence of [idx, uid]
    fetched,        \* rows returned by the SELECT of insert_unique_data
    existing,       \* existing_records: set of normalized ids
    new_records,    \* rows of df that survive the filter
    i,              \* loop index of insert_data_in_batches
    trips,          \* sizes of the executemany round trips issued by this run
    batch_start,    \* the table as it stood when the current pass of the loop began
    msg,            \* the st.error / st.warning / st.success shown by the last run
    prev,           \* how the previous run on the same file ended
    \* ---- enforce_data_types on one frame ----
    cframe,         \* the frame: a sequence of rows, each a sequence of cells
    cnext,          \* index into COLUMN_DATA_TYPES of the next column to convert
    \* ---- the dashboard ----
    tsColumn,       \* storage type of the `timestamp` column: "DATETIME" or "TEXT"
    report_rows,    \* rows of managed_services as the queries see them
    date_range,     \* <<start_date, end_date>> picked in st.date_input
    qnext,          \* index into data_fetchers of the query being fetched
    qpc,            \* position inside fetch_data: "off", "connect", "execute", "finally"
    qconn,          \* fetch_data's connection handle
    qresult,        \* (df, error) returned by the last fetch_data
    shown           \* sections rendered by this run of the dashboard

ingestVars == <<tableExists, storage, leaked, uploaded, pc, conn, df, fetched,
                existing, new_records, i, trips, batch_start, msg, prev>>
coerceVars == <<cframe, cnext>>
queryVars  == <<tsColumn, report_rows, date_range, qnext, qpc, qconn, qresult, shown>>
vars == <<ingestVars, coerceVars, queryVars>>

-----------------------------------------------------------------------------
(* Bounds of the model *)

MaxRows == 3        \* rows in an uploaded file
MaxInitRows == 1    \* rows already in the table when the model starts
batch_size == 2     \* insert_data_in_batches(batch_size=2000), scaled down
MaxCells == 2       \* rows of the frame handed to enforce_data_types
MaxStored == 2      \* rows of the table the dashboard reads

-----------------------------------------------------------------------------
(* Text *)

Range(s) == {s[k] : k \in DOMAIN s}

\* str.isspace(): Python's strip() with no argument removes every Unicode
\* whitespace character, U+00A0 included.
IsSpace(ch) == ch \in {" ", "nbsp"}

RECURSIVE lstrip(_)
lstrip(s) == IF s # <<>> /\ IsSpace(Head(s)) THEN lstrip(Tail(s)) ELSE s

RECURSIVE rstrip(_)
rstrip(s) == IF s # <<>> /\ IsSpace(s[Len(s)]) THEN rstrip(SubSeq(s, 1, Len(s) - 1)) ELSE s

strip(s) == rstrip(lstrip(s))

lowerChar(ch) == CASE ch = "A" -> "a" [] ch = "B" -> "b" [] ch = "E" -> "e" [] OTHER -> ch

lower(s) == [k \in DOMAIN s |-> lowerChar(s[k])]

\* str.replace("\xa0", " ")
replace_nbsp(s) == [k \in DOMAIN s |-> IF s[k] = "nbsp" THEN " " ELSE s[k]]

clean_column_names(columns) == [k \in DOMAIN columns |-> replace_nbsp(strip(columns[k]))]

\* .astype(str).str.strip().str.lower() on one cell; also str(row[0]).strip().lower()
normalize_id(s) == lower(strip(s))

-----------------------------------------------------------------------------
(* Schema catalogue *)

Timestamp == <<"Timestamp">>
TaxAmt    == <<"Tax", " ", "Amt">>
BillLines == <<"Bill", " ", "Lines">>
UniqueID  == <<"Unique", " ", "ID">>

\* One column of each declared type stands for the 36 of the source.
REQUIRED_COLUMNS == <<Timestamp, TaxAmt, BillLines, UniqueID>>

COLUMN_DATA_TYPES ==
    << <<Timestamp, "datetime64">>, <<TaxAmt, "float64">>,
       <<BillLines, "Int64">>, <<UniqueID, "string">> >>


-----------------------------------------------------------------------------
(* Inputs of the import page *)

Procs == {1, 2}

\* Raw `Unique ID` cells as they may stand in a file.
UidPool == { <<"a">>, <<" ", "A">>, <<"B", " ">>, <<"c">> }

\* `Unique ID` values of rows that are in the table before the first upload
\* (put there by whoever created the table: not necessarily normalized).
StoredPool == { <<" ", "A">>, <<"c">> }

\* Header rows: one with every required column, some of them written with
\* surrounding blanks or a non-breaking space inside the name, and a column
\* the catalogue does not know; two with required columns absent.
GoodHeader ==
    << <<" ", "Timestamp">>, <<"Tax", "nbsp", "Amt", " ">>, <<"Extra">>,
       BillLines, <<"nbsp", "Unique", "nbsp", "ID">> >>

HeaderPool ==
    { GoodHeader,
      <<Timestamp, <<"Tax", "Amt">>, BillLines, <<"Unique", " ", "ID", "nbsp">> >>,
      << <<"Extra">>, <<"Bill", " ", " ", "Lines">>, <<"unique", " ", "id">>, TaxAmt >> }

SeqsUpTo(S, n) == UNION {[1..k -> S] : k \in 0..n}

\* A file long enough for three round trips (the 2000, 2000, 500 of a file
\* of 4500 rows, in the small).
LongFile == [hdr |-> GoodHeader, rows |-> << <<"a">>, <<"B", " ">>, <<"c">>, <<"d">>, <<"E">> >>]

Files(n) == [hdr : HeaderPool, rows : SeqsUpTo(UidPool, n)] \cup {LongFile}

NoFile == [hdr |-> <<>>, rows |-> <<>>]

NormIds(rows) == {normalize_id(rows[k]) : k \in DOMAIN rows}

Distinct(rows) == \A j, k \in DOMAIN rows : normalize_id(rows[j]) = normalize_id(rows[k]) => j = k

Message(kind, cols, count) == [kind |-> kind, cols |-> cols, count |-> count]

NoRun == [kind |-> "none", new |-> <<>>, done |-> 0]

-----------------------------------------------------------------------------
(* import_csv_page, lines 153-167: what every run of the script does with   *)
(* the file in the uploader before it looks at the button                   *)

\* (mutation) only the first absent column is named
missing_columns_first(columns) ==
    LET absent == SelectSeq(REQUIRED_COLUMNS, LAMBDA c : c \notin Range(columns))
    IN IF absent = <<>> THEN <<>> ELSE <<Head(absent)>>

missing_columns(columns) == SelectSeq(REQUIRED_COLUMNS, LAMBDA c : c \notin Range(columns))

\* read_csv(dtype=str), fillna(""), index 1..n, then enforce_data_types: the
\* `Unique ID` column is declared "string", so each cell is stripped.
load_frame(file) == [k \in DOMAIN file.rows |-> [idx |-> k, uid |-> strip(file.rows[k])]]

\* The file uploader hands the script a file and the script runs without the
\* button pressed.
LoadFile(p, file) ==
    /\ pc[p] = "idle"
    /\ uploaded' = [uploaded EXCEPT ![p] = file]
    /\ LET missing == missing_columns(clean_column_names(file.hdr)) IN
         IF missing # <<>>
         THEN /\ msg' = [msg EXCEPT ![p] = Message("missing", missing, 0)]
              /\ pc' = [pc EXCEPT ![p] = "rejected"]
              /\ df' = [df EXCEPT ![p] = <<>>]
         ELSE /\ msg' = [msg EXCEPT ![p] = Message("loaded", <<>>, Len(file.rows))]
              /\ pc' = [pc EXCEPT ![p] = "ready"]
              /\ df' = [df EXCEPT ![p] = load_frame(file)]
    /\ fetched' = [fetched EXCEPT ![p] = <<>>]
    /\ existing' = [existing EXCEPT ![p] = {}]
    /\ new_records' = [new_records EXCEPT ![p] = <<>>]
    /\ i' = [i EXCEPT ![p] = 0]
    /\ trips' = [trips EXCEPT ![p] = <<>>]
    /\ batch_start' = [batch_start EXCEPT ![p] = <<>>]
    /\ prev' = [prev EXCEPT ![p] = NoRun]
    /\ UNCHANGED <<tableExists, storage, leaked, conn>>
    /\ UNCHANGED <<coerceVars, queryVars>>

\* The file is taken out of the uploader (lines 182-183).
ClearFile(p) ==
    /\ pc[p] \in {"ready", "rejected"}
    /\ uploaded' = [uploaded EXCEPT ![p] = NoFile]
    /\ msg' = [msg EXCEPT ![p] = Message("please upload", <<>>, 0)]
    /\ pc' = [pc EXCEPT ![p] = "idle"]
    /\ df' = [df EXCEPT ![p] = <<>>]
    /\ fetched' = [fetched EXCEPT ![p] = <<>>]
    /\ existing' = [existing EXCEPT ![p] = {}]
    /\ new_records' = [new_records EXCEPT ![p] = <<>>]
    /\ i' = [i EXCEPT ![p] = 0]
    /\ trips' = [trips EXCEPT ![p] = <<>>]
    /\ batch_start' = [batch_start EXCEPT ![p] = <<>>]
    /\ prev' = [prev EXCEPT ![p] = NoRun]
    /\ UNCHANGED <<tableExists, storage, leaked, conn>>
    /\ UNCHANGED <<coerceVars, queryVars>>

\* What a run that presses "Upload Data" starts from: the frame is read again
\* from the file, and the outcome of the run before it is remembered.
Rerun(p) ==
    /\ df' = [df EXCEPT ![p] = load_frame(uploaded[p])]
    /\ prev' = [prev EXCEPT ![p] = [kind |-> msg[p].kind, new |-> new_records[p], done |-> i[p]]]
    /\ fetched' = [fetched EXCEPT ![p] = <<>>]
    /\ existing' = [existing EXCEPT ![p] = {}]
    /\ new_records' = [new_records EXCEPT ![p] = <<>>]
    /\ i' = [i EXCEPT ![p] = 0]
    /\ trips' = [trips EXCEPT ![p] = <<>>]
    /\ batch_start' = [batch_start EXCEPT ![p] = <<>>]

\* An exception leaves import_csv_page through `except Exception` (line 180):
\* connection.close() on line 176 is skipped.
Raise(p) ==
    /\ leaked' = TRUE
    /\ conn' = [conn EXCEPT ![p] = "none"]
    /\ msg' = [msg EXCEPT ![p] = Message("exception", <<>>, 0)]
    /\ pc' = [pc EXCEPT ![p] = "ready"]

\* connection.close() on line 176
Close(p) == conn' = [conn EXCEPT ![p] = "none"]

\* get_connection() returns nothing (lines 170, 177-178)
UploadNoConnection(p) ==
    /\ pc[p] = "ready"
    /\ Rerun(p)
    /\ msg' = [msg EXCEPT ![p] = Message("no connection", <<>>, 0)]
    /\ UNCHANGED <<tableExists, storage, leaked, uploaded, pc, conn>>
    /\ UNCHANGED <<coerceVars, queryVars>>

\* table_exists finds no table (lines 172, 174-176)
UploadNoTable(p) ==
    /\ pc[p] = "ready"
    /\ ~tableExists
    /\ Rerun(p)
    /\ msg' = [msg EXCEPT ![p] = Message("no table", <<>>, 0)]
    /\ Close(p)
    /\ UNCHANGED <<tableExists, storage, leaked, uploaded, pc>>
    /\ UNCHANGED <<coerceVars, queryVars>>

\* table_exists raises (the cursor or SHOW TABLES fails)
UploadTableCheckRaises(p) ==
    /\ pc[p] = "ready"
    /\ Rerun(p)
    /\ Raise(p)
    /\ UNCHANGED <<tableExists, storage, uploaded>>
    /\ UNCHANGED <<coerceVars, queryVars>>

\* the connection is open and the table is there: insert_unique_data is entered
UploadBegin(p) ==
    /\ pc[p] = "ready"
    /\ tableExists
    /\ Rerun(p)
    /\ conn' = [conn EXCEPT ![p] = "open"]
    /\ pc' = [pc EXCEPT ![p] = "dedup"]
    /\ UNCHANGED <<tableExists, storage, leaked, uploaded, msg>>
    /\ UNCHANGED <<coerceVars, queryVars>>

-----------------------------------------------------------------------------
(* insert_unique_data *)

\* (mutation) the ids are trimmed and not lowercased
normalize_frame_no_lower(frame) == [k \in DOMAIN frame |-> [frame[k] EXCEPT !.uid = strip(frame[k].uid)]]

\* line 111
normalize_frame(frame) == [k \in DOMAIN frame |-> [frame[k] EXCEPT !.uid = normalize_id(frame[k].uid)]]

\* (mutation) keep="last"
drop_duplicates_keep_last(frame) ==
    SelectSeq(frame, LAMBDA r : \A k \in DOMAIN frame : frame[k].uid = r.uid => frame[k].idx <= r.idx)

\* line 112: drop_duplicates(subset=["Unique ID"]) keeps the first row of each key
drop_duplicates(frame) ==
    SelectSeq(frame, LAMBDA r : \A k \in DOMAIN frame : frame[k].uid = r.uid => frame[k].idx >= r.idx)

\* (mutation) the stored ids are compared as they are stored
existing_records_raw(rows) == {rows[k] : k \in DOMAIN rows}

\* line 116
existing_records(rows) == {normalize_id(rows[k]) : k \in DOMAIN rows}

\* (mutation) nothing is filtered out
filter_new_unfiltered(frame, seen) == frame

\* line 118
filter_new(frame, seen) == SelectSeq(frame, LAMBDA r : r.uid \notin seen)

\* lines 104-124 up to the call of insert_data_in_batches
DedupRead(p) ==
    /\ pc[p] = "dedup"
    /\ LET frame == drop_duplicates(normalize_frame(df[p]))
           seen == existing_records(storage)
           fresh == filter_new(frame, seen)
       IN /\ df' = [df EXCEPT ![p] = frame]
          /\ fetched' = [fetched EXCEPT ![p] = storage]
          /\ existing' = [existing EXCEPT ![p] = seen]
          /\ new_records' = [new_records EXCEPT ![p] = fresh]
          /\ IF fresh = <<>>
             THEN /\ msg' = [msg EXCEPT ![p] = Message("no new", <<>>, 0)]
                  /\ Close(p)
                  /\ pc' = [pc EXCEPT ![p] = "ready"]
             ELSE /\ pc' = [pc EXCEPT ![p] = "batch"]
                  /\ UNCHANGED <<msg, conn>>
    /\ batch_start' = [batch_start EXCEPT ![p] = storage]
    /\ UNCHANGED <<tableExists, storage, leaked, uploaded, i, trips, prev>>
    /\ UNCHANGED <<coerceVars, queryVars>>

\* the SELECT of line 115 raises
DedupReadRaises(p) ==
    /\ pc[p] = "dedup"
    /\ Raise(p)
    /\ df' = [df EXCEPT ![p] = drop_duplicates(normalize_frame(df[p]))]
    /\ UNCHANGED <<tableExists, storage, uploaded, fetched, existing, new_records, i, trips,
                   batch_start, prev>>
    /\ UNCHANGED <<coerceVars, queryVars>>

-----------------------------------------------------------------------------
(* insert_data_in_batches *)

Min(a, b) == IF a < b THEN a ELSE b

\* (mutation) the slice ends one row early
batch_data_one_short(frame, from) == SubSeq(frame, from + 1, Min(from + batch_size - 1, Len(frame)))

\* (mutation) the slice runs to the end of the frame
batch_data_rest(frame, from) == SubSeq(frame, from + 1, Len(frame))

\* line 133: df.iloc[i:i + batch_size]
batch_data(frame, from) == SubSeq(frame, from + 1, Min(from + batch_size, Len(frame)))

Uids(frame) == [k \in DOMAIN frame |-> frame[k].uid]

\* One pass of the loop (lines 132-135): executemany, then commit.  After the
\* last pass insert_unique_data reports success and import_csv_page closes
\* the connection (lines 125, 176).
BatchInsert(p) ==
    /\ pc[p] = "batch"
    /\ LET batch == batch_data(new_records[p], i[p]) IN
         /\ storage' = storage \o Uids(batch)
         /\ trips' = [trips EXCEPT ![p] = Append(@, Len(batch))]
         /\ i' = [i EXCEPT ![p] = @ + batch_size]
         /\ IF i[p] + batch_size < Len(new_records[p])
            THEN /\ batch_start' = [batch_start EXCEPT ![p] = storage']
                 /\ UNCHANGED <<pc, msg, conn>>
            ELSE /\ msg' = [msg EXCEPT ![p] = Message("success", <<>>, Len(new_records[p]))]
                 /\ Close(p)
                 /\ pc' = [pc EXCEPT ![p] = "ready"]
                 /\ UNCHANGED batch_start
    /\ UNCHANGED <<tableExists, leaked, uploaded, df, fetched, existing, new_records, prev>>
    /\ UNCHANGED <<coerceVars, queryVars>>

\* executemany (or commit) raises: the pass's rows are not committed
BatchRaises(p) ==
    /\ pc[p] = "batch"
    /\ Raise(p)
    /\ trips' = [trips EXCEPT ![p] = Append(@, Len(batch_data(new_records[p], i[p])))]
    /\ UNCHANGED <<tableExists, storage, uploaded, df, fetched, existing, new_records, i,
                   batch_start, prev>>
    /\ UNCHANGED <<coerceVars, queryVars>>

-----------------------------------------------------------------------------
(* enforce_data_types *)

\* A cell is text (as read_csv(dtype=str) and fillna("") leave it), a number
\* n / 10^d, or NaN/NaT.
Text(s) == [t |-> "text", s |-> s, n |-> 0, d |-> 0]
Num(n, d) == [t |-> "num", s |-> <<>>, n |-> n, d |-> d]
NaN == [t |-> "nan", s |-> <<>>, n |-> 0, d |-> 0]

Digits == <<"0", "1", "2", "3", "4", "5", "6", "7", "8", "9">>
IsDigit(ch) == ch \in Range(Digits)
DigitValue(ch) == (CHOOSE k \in DOMAIN Digits : Digits[k] = ch) - 1

RECURSIVE DecimalValue(_)
DecimalValue(s) == IF s = <<>> THEN 0 ELSE 10 * DecimalValue(SubSeq(s, 1, Len(s) - 1)) + DigitValue(s[Len(s)])

\* a float keeps no trailing zero of its fraction: 2.0 is the number 2
RECURSIVE Reduced(_, _)
Reduced(n, d) == IF d > 0 /\ n % 10 = 0 THEN Reduced(n \div 10, d - 1) ELSE Num(n, d)

\* pd.to_numeric(errors="coerce") on one text: digits are an integer, digits
\* with one decimal point are a float, everything else (the empty text too)
\* is NaN.
to_numeric(s) ==
    LET dots == {k \in DOMAIN s : s[k] = "."}
        rest == SelectSeq(s, LAMBDA ch : ch # ".")
    IN IF rest = <<>> \/ Cardinality(dots) > 1 \/ \E k \in DOMAIN rest : ~IsDigit(rest[k])
       THEN NaN
       ELSE IF dots = {} THEN Num(DecimalValue(rest), 0)
       ELSE Reduced(DecimalValue(rest), Len(s) - (CHOOSE k \in dots : TRUE))

\* pd.to_datetime(errors="coerce") then .dt.strftime('%Y-%m-%d %H:%M:%S'): a
\* text of the form Y-M-D h:m:s comes back as that text, anything else as NaT.
\* (Each of Y, M, D, h, m, s is one symbol.)
IsDateTimeText(s) ==
    /\ Len(s) = 11
    /\ s[2] = "-" /\ s[4] = "-" /\ s[6] = " " /\ s[8] = ":" /\ s[10] = ":"
    /\ \A k \in {1, 3, 5, 7, 9, 11} : s[k] \notin {"-", " ", ":", "x"}

to_datetime_strftime(s) == IF IsDateTimeText(s) THEN Text(s) ELSE NaN

\* astype(str).str.strip()
strip_text(s) == Text(strip(s))

\* the conversion of lines 81-94 for a declared type, on one cell
convert_cell(dtype, s) ==
    CASE dtype = "datetime64" -> to_datetime_strftime(s)
      [] dtype = "float64" -> to_numeric(s)
      [] dtype = "Int64" -> to_numeric(s)
      [] OTHER -> strip_text(s)

\* df[column] = <conversion of df[column]>
convert_column(frame, c, dtype) ==
    [r \in DOMAIN frame |-> [frame[r] EXCEPT ![c] = convert_cell(dtype, frame[r][c].s)]]

TimestampCells == { <<"2024", "-", "01", "-", "31", " ", "10", ":", "00", ":", "00">>,
                    <<"x", "-", "01">> }
TaxAmtCells == { <<"1", "2", ".", "5">>, <<"x">> }
BillLinesCells == { <<"7">>, <<"1", "2">>, <<"1", ".", "5">>, <<"2", ".", "0">>, <<"1", "x">>, <<>> }
UniqueIDCells == { <<" ", "A">>, <<"c">> }

FrameRows ==
    { <<Text(a), Text(b), Text(c), Text(d)>> :
        a \in TimestampCells, b \in TaxAmtCells, c \in BillLinesCells, d \in UniqueIDCells }

\* the declared type of the column the loop of line 78 has come to
NextType == IF cnext \in DOMAIN COLUMN_DATA_TYPES THEN COLUMN_DATA_TYPES[cnext][2] ELSE "none"

\* One pass of the loop per action, by the branch taken.  No text of the
\* model makes a conversion raise, so the `except` of lines 96-97 is not
\* entered.
\* lines 81-85
ConvertDatetime ==
    /\ NextType = "datetime64"
    /\ cframe' = convert_column(cframe, cnext, "datetime64")
    /\ cnext' = cnext + 1
    /\ UNCHANGED <<ingestVars, queryVars>>

\* lines 87-88
ConvertFloat ==
    /\ NextType = "float64"
    /\ cframe' = convert_column(cframe, cnext, "float64")
    /\ cnext' = cnext + 1
    /\ UNCHANGED <<ingestVars, queryVars>>

\* lines 90-91: downcast="integer" narrows a column of whole numbers and
\* changes no value; a column holding a NaN or a fraction stays float64
ConvertInt ==
    /\ NextType = "Int64"
    /\ cframe' = convert_column(cframe, cnext, "Int64")
    /\ cnext' = cnext + 1
    /\ UNCHANGED <<ingestVars, queryVars>>

\* lines 93-94
ConvertString ==
    /\ NextType = "string"
    /\ cframe' = convert_column(cframe, cnext, "string")
    /\ cnext' = cnext + 1
    /\ UNCHANGED <<ingestVars, queryVars>>

-----------------------------------------------------------------------------
(* dashboard.py *)

Null == "NULL"
NullTs == <<0, 0>>      \* a row whose timestamp is NULL

CatCols == {"OCR", "payer", "EMEA", "priority", "foreign language"}

\* QUERIES: the column counted and grouped, and the LIMIT (0: none)
QUERIES ==
    [ processing_tool_usage |-> [col |-> "OCR", limit |-> 0],
      top_payers |-> [col |-> "payer", limit |-> 20],
      emea_distribution |-> [col |-> "EMEA", limit |-> 0],
      priority_distribution |-> [col |-> "priority", limit |-> 0],
      top_languages |-> [col |-> "foreign language", limit |-> 5] ]

\* data_fetchers, in the order of the loop of line 103
data_fetchers ==
    << "processing_tool_usage", "top_payers", "emea_distribution",
       "priority_distribution", "top_languages" >>

NoResult == [error |-> "none", rows |-> <<>>]

\* Lexicographic order; a proper prefix comes first.
RECURSIVE LexLeq(_, _)
LexLeq(a, b) ==
    IF a = <<>> THEN TRUE
    ELSE IF b = <<>> THEN FALSE
    ELSE IF Head(a) # Head(b) THEN Head(a) < Head(b)
    ELSE LexLeq(Tail(a), Tail(b))

\* A date bound as the server compares it with the column: against a DATETIME
\* column the date is the datetime at 00:00:00 of that day, against a text
\* column it is the text 'YYYY-MM-DD', a proper prefix of every stored
\* 'YYYY-MM-DD HH:MM:SS' of that day.  A timestamp is <<day, time of day>>.
DateBound(day) == IF tsColumn = "DATETIME" THEN <<day, 0>> ELSE <<day>>

\* timestamp BETWEEN %s AND %s
Between(ts, start_date, end_date) ==
    /\ ts # NullTs
    /\ LexLeq(DateBound(start_date), ts)
    /\ LexLeq(ts, DateBound(end_date))

\* WHERE col IS NOT NULL AND timestamp BETWEEN %s AND %s
Matching(q, start_date, end_date) ==
    {k \in DOMAIN report_rows :
        /\ report_rows[k].cat[QUERIES[q].col] # Null
        /\ Between(report_rows[k].ts, start_date, end_date)}

\* GROUP BY col with COUNT(*)
Groups(q, start_date, end_date) ==
    LET hit == Matching(q, start_date, end_date)
        keys == {report_rows[k].cat[QUERIES[q].col] : k \in hit}
    IN {[key |-> v, n |-> Cardinality({k \in hit : report_rows[k].cat[QUERIES[q].col] = v})] :
            v \in keys}

\* ORDER BY count DESC LIMIT n: every order of the groups the server may
\* return (ties are in no fixed order)
Ranked(q, start_date, end_date) ==
    LET G == Groups(q, start_date, end_date)
        len == IF QUERIES[q].limit = 0 THEN Cardinality(G)
               ELSE Min(QUERIES[q].limit, Cardinality(G))
    IN {r \in [1..len -> G] :
            /\ \A j, k \in 1..len : j < k => (r[j] # r[k] /\ r[j].n >= r[k].n)
            /\ \A g \in G \ Range(r) : \A k \in 1..len : r[k].n >= g.n}

Days == 1..3
Times == {NullTs} \cup (Days \X {0, 1})
Cats == { [c \in CatCols |-> "x"],
          [c \in CatCols |-> IF c \in {"payer", "EMEA"} THEN Null ELSE IF c = "OCR" THEN "x" ELSE "y"] }
ReportRows == [ts : Times, cat : Cats]

\* lines 73-89: a pair of dates comes back from st.date_input
DateInput(start_date, end_date) ==
    /\ qpc = "off"
    /\ date_range' = <<start_date, end_date>>
    /\ shown' = <<>>
    /\ qresult' = NoResult
    /\ IF start_date > end_date
       THEN qnext' = 0 /\ qpc' = "off"
       ELSE qnext' = 1 /\ qpc' = "connect"
    /\ UNCHANGED <<tsColumn, report_rows, qconn>>
    /\ UNCHANGED <<ingestVars, coerceVars>>

\* lines 81-85: only one date is picked so far
DateInputPartial(start_date) ==
    /\ qpc = "off"
    /\ date_range' = <<start_date>>
    /\ shown' = <<>>
    /\ qresult' = NoResult
    /\ qnext' = 0
    /\ UNCHANGED <<tsColumn, report_rows, qconn, qpc>>
    /\ UNCHANGED <<ingestVars, coerceVars>>

\* lines 105-133 for the result of one fetch_data, and the loop's next turn
Render(result) ==
    /\ shown' = IF result.error = "none" /\ result.rows # <<>> THEN Append(shown, data_fetchers[qnext]) ELSE shown
    /\ IF qnext < Len(data_fetchers)
       THEN qnext' = qnext + 1 /\ qpc' = "connect"
       ELSE qnext' = 0 /\ qpc' = "off"

\* fetch_data lines 9-11: get_connection returns nothing
FetchNoConnection ==
    /\ qpc = "connect"
    /\ qresult' = [error |-> "Failed to connect to the database.", rows |-> <<>>]
    /\ Render(qresult')
    /\ UNCHANGED <<tsColumn, report_rows, date_range, qconn>>
    /\ UNCHANGED <<ingestVars, coerceVars>>

\* line 9: the connection is there
FetchConnect ==
    /\ qpc = "connect"
    /\ qconn' = "open"
    /\ qpc' = "execute"
    /\ UNCHANGED <<tsColumn, report_rows, date_range, qnext, qresult, shown>>
    /\ UNCHANGED <<ingestVars, coerceVars>>

\* lines 14-17
FetchExecute ==
    /\ qpc = "execute"
    /\ \E r \in Ranked(data_fetchers[qnext], date_range[1], date_range[2]) :
          qresult' = [error |-> "none", rows |-> r]
    /\ qpc' = "finally"
    /\ UNCHANGED <<tsColumn, report_rows, date_range, qnext, qconn, shown>>
    /\ UNCHANGED <<ingestVars, coerceVars>>

\* lines 18-19
FetchExecuteRaises ==
    /\ qpc = "execute"
    /\ qresult' = [error |-> "exception", rows |-> <<>>]
    /\ qpc' = "finally"
    /\ UNCHANGED <<tsColumn, report_rows, date_range, qnext, qconn, shown>>
    /\ UNCHANGED <<ingestVars, coerceVars>>

\* lines 20-21, then back in admin_dashboard
FetchFinally ==
    /\ qpc = "finally"
    /\ qconn' = "none"
    /\ Render(qresult)
    /\ UNCHANGED <<tsColumn, report_rows, date_range, qresult>>
    /\ UNCHANGED <<ingestVars, coerceVars>>

-----------------------------------------------------------------------------
(* Specifications *)

InitIngest ==
    /\ tableExists \in BOOLEAN
    /\ storage \in {s \in SeqsUpTo(StoredPool, MaxInitRows) : Distinct(s) /\ (~tableExists => s = <<>>)}
    /\ leaked = FALSE
    /\ uploaded = [p \in Procs |-> NoFile]
    /\ pc = [p \in Procs |-> "idle"]
    /\ conn = [p \in Procs |-> "none"]
    /\ df = [p \in Procs |-> <<>>]
    /\ fetched = [p \in Procs |-> <<>>]
    /\ existing = [p \in Procs |-> {}]
    /\ new_records = [p \in Procs |-> <<>>]
    /\ i = [p \in Procs |-> 0]
    /\ trips = [p \in Procs |-> <<>>]
    /\ batch_start = [p \in Procs |-> <<>>]
    /\ msg = [p \in Procs |-> Message("please upload", <<>>, 0)]
    /\ prev = [p \in Procs |-> NoRun]

InitCoerceOff == cframe = <<>> /\ cnext = 0

InitQueryOff ==
    /\ tsColumn = "DATETIME"
    /\ report_rows = <<>>
    /\ date_range = <<0, 0>>
    /\ qnext = 0
    /\ qpc = "off"
    /\ qconn = "none"
    /\ qresult = NoResult
    /\ shown = <<>>

\* One session: uploads run one at a time, each to completion or to failure.
Init == InitIngest /\ InitCoerceOff /\ InitQueryOff

Next ==
    \/ \E file \in Files(MaxRows) : LoadFile(1, file)
    \/ ClearFile(1)
    \/ UploadNoConnection(1)
    \/ UploadNoTable(1)
    \/ UploadTableCheckRaises(1)
    \/ UploadBegin(1)
    \/ DedupRead(1)
    \/ DedupReadRaises(1)
    \/ BatchInsert(1)
    \/ BatchRaises(1)

Spec == Init /\ [][Next]_vars

\* Two sessions whose steps interleave.  Each storage access of a run (the
\* SELECT, each executemany with its commit) is one step.
RaceFile(rows) == [hdr |-> GoodHeader, rows |-> rows]

RaceFiles ==
    { RaceFile(<< <<"a">>, <<"B", " ">>, <<"c">> >>),
      RaceFile(<< <<"c">>, <<" ", "A">> >>) }

NextRace ==
    \E p \in Procs :
        \/ \E file \in RaceFiles : LoadFile(p, file)
        \/ ClearFile(p)
        \/ UploadNoConnection(p)
        \/ UploadNoTable(p)
        \/ UploadTableCheckRaises(p)
        \/ UploadBegin(p)
        \/ DedupRead(p)
        \/ DedupReadRaises(p)
        \/ BatchInsert(p)
        \/ BatchRaises(p)

SpecRace == Init /\ [][NextRace]_vars

InitIngestOff ==
    /\ tableExists = TRUE
    /\ storage = <<>>
    /\ leaked = FALSE
    /\ uploaded = [p \in Procs |-> NoFile]
    /\ pc = [p \in Procs |-> "idle"]
    /\ conn = [p \in Procs |-> "none"]
    /\ df = [p \in Procs |-> <<>>]
    /\ fetched = [p \in Procs |-> <<>>]
    /\ existing = [p \in Procs |-> {}]
    /\ new_records = [p \in Procs |-> <<>>]
    /\ i = [p \in Procs |-> 0]
    /\ trips = [p \in Procs |-> <<>>]
    /\ batch_start = [p \in Procs |-> <<>>]
    /\ msg = [p \in Procs |-> Message("please upload", <<>>, 0)]
    /\ prev = [p \in Procs |-> NoRun]

\* enforce_data_types on every frame of up to MaxCells rows
InitCoerce ==
    /\ cframe \in SeqsUpTo(FrameRows, MaxCells)
    /\ cnext = 1
    /\ InitIngestOff /\ InitQueryOff

NextCoerce == ConvertDatetime \/ ConvertFloat \/ ConvertInt \/ ConvertString

SpecCoerce == InitCoerce /\ [][NextCoerce]_vars

\* the dashboard over every table of up to MaxStored rows
InitQuery ==
    /\ tsColumn \in {"DATETIME", "TEXT"}
    /\ report_rows \in SeqsUpTo(ReportRows, MaxStored)
    /\ date_range = <<0, 0>>
    /\ qnext = 0
    /\ qpc = "off"
    /\ qconn = "none"
    /\ qresult = NoResult
    /\ shown = <<>>
    /\ InitIngestOff /\ InitCoerceOff

NextQuery ==
    \/ \E start_date, end_date \in Days : DateInput(start_date, end_date)
    \/ \E start_date \in Days : DateInputPartial(start_date)
    \/ FetchNoConnection
    \/ FetchConnect
    \/ FetchExecute
    \/ FetchExecuteRaises
    \/ FetchFinally

SpecQuery == InitQuery /\ [][NextQuery]_vars

-----------------------------------------------------------------------------
(* Claims about the import page, one session *)

Count(S) == Cardinality(S)

\* rows of the uploaded file by position
FileRows(p) == uploaded[p].rows
Key(p, k) == normalize_id(FileRows(p)[k])
IsRepeat(p, k) == \E j \in 1..(k - 1) : Key(p, j) = Key(p, k)
PreExists(p, k) == Key(p, k) \in NormIds(fetched[p])

\* the run of session p that pressed the button has come to its end
Completed(p) == pc[p] = "ready" /\ msg[p].kind \in {"success", "no new"}

\* C1: after any sequence of uploads run one at a time, no two rows of the
\* table have the same trimmed, lowercased Unique ID.
C1_NoDuplicateIds ==
    \A j, k \in DOMAIN storage :
        lower(strip(storage[j])) = lower(strip(storage[k])) => j = k

\* an upload whose file repeats an id and holds an id already stored has
\* inserted rows
C1_Witness ==
    /\ msg[1].kind = "success"
    /\ \E k \in DOMAIN FileRows(1) : IsRepeat(1, k)
    /\ \E k \in DOMAIN FileRows(1) : PreExists(1, k)
    /\ Len(storage) > Len(fetched[1])
    /\ Len(fetched[1]) > 0

\* C2: a file whose cleaned header lacks a required column is refused with
\* exactly the absent required columns named, and nothing else happens: no
\* frame is kept, no connection is opened, storage does not change, and the
\* upload cannot be started.
C2_Absent(p) == {c \in Range(REQUIRED_COLUMNS) : \A k \in DOMAIN uploaded[p].hdr :
                    replace_nbsp(strip(uploaded[p].hdr[k])) # c}

C2_MissingColumnsRejected ==
    /\ [](\A p \in {1} :
            /\ (uploaded[p] # NoFile /\ C2_Absent(p) # {}) =>
                  /\ msg[p].kind = "missing"
                  /\ Range(msg[p].cols) = C2_Absent(p)
                  /\ Len(msg[p].cols) = Count(C2_Absent(p))
                  /\ pc[p] = "rejected"
                  /\ df[p] = <<>> /\ existing[p] = {} /\ new_records[p] = <<>>
                  /\ conn[p] = "none"
            /\ msg[p].kind = "missing" => C2_Absent(p) # {})
    /\ [][\A p \in {1} : (pc[p] = "rejected" \/ pc'[p] = "rejected") =>
            /\ storage' = storage
            /\ leaked' = leaked
            /\ conn' = conn]_vars

C2_Witness ==
    /\ msg[1].kind = "missing"
    /\ Len(msg[1].cols) > 1
    /\ Len(FileRows(1)) > 0
    /\ Len(storage) > 0

\* C3 as stated: the number inserted is the number of uploaded rows, minus
\* the rows whose id is already stored, minus the later repeats in the file.
C3_CountAsStated ==
    Completed(1) =>
        Len(storage) - Len(fetched[1])
            = Len(FileRows(1))
              - Count({k \in DOMAIN FileRows(1) : PreExists(1, k)})
              - Count({k \in DOMAIN FileRows(1) : IsRepeat(1, k)})

\* C3 amended: an upload that passes validation and runs to its end inserts
\* exactly the first occurrence in the file of each normalized id that is not
\* yet stored, in file order; the number inserted, which is the number
\* reported, is the number of uploaded rows minus the later repeats minus
\* the first occurrences whose id is already stored.
C3_FirstNewOccurrencesInserted ==
    Completed(1) =>
        LET first == {k \in DOMAIN FileRows(1) : ~IsRepeat(1, k) /\ ~PreExists(1, k)}
            added == SubSeq(storage, Len(fetched[1]) + 1, Len(storage))
        IN /\ {new_records[1][k].idx : k \in DOMAIN new_records[1]} = first
           /\ Len(new_records[1]) = Count(first)
           /\ \A j, k \in DOMAIN new_records[1] :
                 j < k => new_records[1][j].idx < new_records[1][k].idx
           /\ added = [k \in DOMAIN new_records[1] |-> Key(1, new_records[1][k].idx)]
           /\ SubSeq(storage, 1, Len(fetched[1])) = fetched[1]
           /\ Len(added) = Len(FileRows(1))
                 - Count({k \in DOMAIN FileRows(1) : IsRepeat(1, k)})
                 - Count({k \in DOMAIN FileRows(1) : ~IsRepeat(1, k) /\ PreExists(1, k)})
           /\ msg[1].kind = "success" => msg[1].count = Len(added)
           /\ msg[1].kind = "no new" => Len(added) = 0

\* a completed upload in which a later repeat's id was also already stored,
\* and which inserted a row
C3_Witness ==
    /\ msg[1].kind = "success" /\ pc[1] = "ready"
    /\ \E k \in DOMAIN FileRows(1) : IsRepeat(1, k) /\ PreExists(1, k)
    /\ Len(storage) > Len(fetched[1])

\* C4: when an upload of a file has completed, uploading the same file again
\* changes no row of storage and, if it runs to its end, reports "no new
\* records".
C4_SecondUploadInsertsNothing ==
    /\ [](\A p \in {1} :
            (Completed(p) /\ prev[p].kind \in {"success", "no new"}) =>
                /\ msg[p].kind = "no new"
                /\ new_records[p] = <<>>
                /\ storage = fetched[p])
    /\ [][\A p \in {1} : prev'[p].kind \in {"success", "no new"} => storage' = storage]_vars

\* the second upload of a file whose first upload inserted rows has ended
C4_Witness ==
    /\ Completed(1)
    /\ prev[1].kind = "success"
    /\ Len(prev[1].new) > 1
    /\ \E k \in DOMAIN FileRows(1) : FileRows(1)[k] # Key(1, k)

CeilDiv(n, b) == (n + b - 1) \div b

\* C5: the surviving rows go out in file order in round trips of batch_size
\* rows, the last one of the remainder, ceil(n / batch_size) in all, each
\* committed before the next; when a round trip fails the rows of the round
\* trips before it stay in storage and no further round trip is made.
C5_BatchesCommitInOrder ==
    \A p \in {1} :
        LET n == Len(new_records[p])
            sent == Uids(new_records[p])
        IN /\ \A k \in DOMAIN trips[p] :
                 trips[p][k] = IF k * batch_size <= n THEN batch_size ELSE n - (k - 1) * batch_size
           /\ \A k \in DOMAIN trips[p] : trips[p][k] >= 1
           /\ pc[p] = "batch" =>
                 /\ i[p] = Len(trips[p]) * batch_size /\ i[p] < n
                 /\ storage = fetched[p] \o SubSeq(sent, 1, i[p])
           /\ (pc[p] = "ready" /\ msg[p].kind = "success") =>
                 /\ Len(trips[p]) = CeilDiv(n, batch_size)
                 /\ storage = fetched[p] \o sent
           /\ (pc[p] = "ready" /\ msg[p].kind = "exception" /\ trips[p] # <<>>) =>
                 /\ storage = fetched[p] \o SubSeq(sent, 1, (Len(trips[p]) - 1) * batch_size)
                 /\ Len(trips[p]) <= CeilDiv(n, batch_size)

\* a run failed in its third round trip, the rows of the first two committed
C5_Witness ==
    /\ pc[1] = "ready" /\ msg[1].kind = "exception"
    /\ Len(trips[1]) = 3
    /\ Len(storage) = Len(fetched[1]) + 2 * batch_size
    /\ Len(new_records[1]) > 2 * batch_size

\* C8: a connection an operation (an upload run, a reporting query) opened is
\* closed when that operation has ended, however it ended: between
\* operations no connection is open.
C8_ConnectionsClosedAfterOperation ==
    /\ ~leaked
    /\ \A p \in Procs : pc[p] \in {"idle", "rejected", "ready"} => conn[p] = "none"
    /\ qpc \in {"off", "connect"} => qconn = "none"

\* C10: when an upload failed in a round trip and the same file is uploaded
\* again to its end, the second upload inserts exactly the rows the first did
\* not commit, and every normalized id of the file is in storage once.
C10_RetryCompletesFailedUpload ==
    \A p \in {1} :
        (Completed(p) /\ prev[p].kind = "exception" /\ prev[p].new # <<>>) =>
            /\ msg[p].kind = "success"
            /\ Uids(new_records[p]) = SubSeq(Uids(prev[p].new), prev[p].done + 1, Len(prev[p].new))
            /\ msg[p].count = Len(prev[p].new) - prev[p].done
            /\ Len(storage) >= Len(prev[p].new)
            /\ SubSeq(storage, Len(storage) - Len(prev[p].new) + 1, Len(storage)) = Uids(prev[p].new)
            /\ \A k \in DOMAIN FileRows(p) :
                  Count({j \in DOMAIN storage : lower(strip(storage[j])) = Key(p, k)}) = 1

\* the retry of an upload that failed in its second round trip has ended
C10_Witness ==
    /\ Completed(1)
    /\ prev[1].kind = "exception"
    /\ prev[1].done = batch_size
    /\ Len(prev[1].new) > batch_size
    /\ Len(fetched[1]) >= batch_size

-----------------------------------------------------------------------------
(* Claims about two uploads that race *)

\* the rows a step appended to the table
Appended == SubSeq(storage', Len(storage) + 1, Len(storage'))

InsertsBatch(p) == pc[p] = "batch" /\ i'[p] # i[p]

\* C9 as stated: every batch is checked against the table as it stands when
\* that batch runs, so a row whose id was committed before its batch began is
\* not inserted.
C9_CheckedPerBatch ==
    [][\A p \in Procs : InsertsBatch(p) =>
          \A k \in DOMAIN Appended : Appended[k] \notin NormIds(batch_start[p])]_vars

\* C9 amended: an upload is checked once, against the ids it read from the
\* table before its first batch: a row whose id was committed before that
\* read is in no batch, and every row a batch inserts had its id absent from
\* that one reading, whatever was committed since.
C9_CheckedOncePerUpload ==
    /\ [](\A p \in Procs : \A k \in DOMAIN new_records[p] :
            /\ new_records[p][k].uid \notin NormIds(fetched[p])
            /\ new_records[p][k].uid \notin existing[p])
    /\ [][\A p \in Procs : InsertsBatch(p) =>
            /\ Appended = Uids(batch_data(new_records[p], i[p]))
            /\ \A k \in DOMAIN Appended : Appended[k] \notin NormIds(fetched[p])]_vars

\* a run's second batch has inserted an id that the other run committed
\* after the first run's reading and before its second batch began
C9_Witness ==
    \E p \in Procs :
        /\ pc[p] = "ready" /\ msg[p].kind = "success" /\ Len(trips[p]) = 2
        /\ \E k \in DOMAIN new_records[p] :
              /\ k > batch_size
              /\ new_records[p][k].uid \in NormIds(batch_start[p])
              /\ new_records[p][k].uid \notin existing[p]
              /\ Count({j \in DOMAIN storage : storage[j] = new_records[p][k].uid}) = 2

-----------------------------------------------------------------------------
(* Claims about coercion and the dashboard *)

BillLinesColumn == CHOOSE c \in DOMAIN COLUMN_DATA_TYPES : COLUMN_DATA_TYPES[c][1] = BillLines

\* C7: once an integer-typed column is converted, each of its cells is a
\* whole number or null.
C7_IntegerCellsWholeOrNull ==
    cnext > BillLinesColumn =>
        \A r \in DOMAIN cframe :
            LET cell == cframe[r][BillLinesColumn]
            IN cell.t = "nan" \/ (cell.t = "num" /\ cell.d = 0)

\* C6: a query that succeeded returns, for each value of its grouping column,
\* the number of rows with that value whose timestamp falls on a day from
\* start_date to end_date, both days included whatever the time of day, and
\* returns no other group.
C6_Expected(q) ==
    LET hit == {k \in DOMAIN report_rows :
                  /\ report_rows[k].cat[QUERIES[q].col] # Null
                  /\ report_rows[k].ts # NullTs
                  /\ report_rows[k].ts[1] >= date_range[1]
                  /\ report_rows[k].ts[1] <= date_range[2]}
    IN {[key |-> v, n |-> Cardinality({k \in hit : report_rows[k].cat[QUERIES[q].col] = v})] :
            v \in {report_rows[k].cat[QUERIES[q].col] : k \in hit}}

C6_CountsWholeRangeInclusive ==
    (qpc = "finally" /\ qresult.error = "none") =>
        Range(qresult.rows) = C6_Expected(data_fetchers[qnext])

=============================================================================
